---- MODULE Spec2Model ----
(***************************************************************************)
(* A model of sqlite3_wrapper (statement, db) and of its migration runner   *)
(* (migrations::apply_migrations).                                          *)
(*                                                                          *)
(* The SQLite engine is an external library.  What the wrapper's code       *)
(* relies on is modelled after the engine's documented behaviour:           *)
(*   - outside BEGIN..COMMIT every statement commits on its own;            *)
(*   - BEGIN inside a transaction and COMMIT / ROLLBACK outside one fail;   *)
(*   - a statement that fails inside a transaction undoes only itself, the  *)
(*     transaction stays open;                                              *)
(*   - closing a connection rolls an open transaction back;                 *)
(*   - sqlite3_step on a statement that has run to completion (or failed)   *)
(*     starts a new run, and the run sees what the database holds then;     *)
(*     a step that fails on another connection's lock leaves its run        *)
(*     waiting, and the next step continues that run;                       *)
(*   - sqlite3_reset reports the error of the last step and keeps the       *)
(*     parameter bindings;                                                  *)
(*   - sqlite3_close_v2 and sqlite3_finalize do nothing for nullptr; a      *)
(*     failed sqlite3_open_v2 usually leaves a handle that must be closed,  *)
(*     a failed sqlite3_prepare_v3 leaves nullptr;                          *)
(*   - the engine keeps integers in 64 bits; sqlite3_column_int returns the *)
(*     low 32 bits, and 0 for NULL.                                         *)
(***************************************************************************)
EXTENDS Integers, Sequences, FiniteSets, TLC

\* Longest migration list a caller passes.
MaxLen == 3

\* SQL texts a caller may pass as migration bodies: two valid ones with
\* distinct effects, one that holds two statements, and one the engine
\* rejects.
SingleTexts == {"m_a", "m_b", "bad"}

SqlTexts == SingleTexts \cup {"m_c;m_d"}

IsValidSql(sql) == sql # "bad"

\* The SQL statements a text consists of.
Statements(sql) == IF sql = "m_c;m_d" THEN <<"m_c", "m_d">> ELSE <<sql>>

\* sqlite3_prepare_v3(db, sql, size, flags, &_statement, nullptr) compiles the
\* first statement of the text; the rest of the text, which pzTail would
\* point to, is not asked for.
PreparedStatements(sql) == <<Head(Statements(sql))>>

\* The lists a caller passes: any list of one-statement texts, and any list
\* that mixes a valid one-statement text with the two-statement text.
MigrationLists ==
    UNION {[1..k -> SingleTexts] \cup [1..k -> {"m_a", "m_c;m_d"}] : k \in 0..MaxLen}

VARIABLES
    db,            \* the connection's view: [inTxn, hasTable, ledger, applied, effects]
    committed,     \* the durable database: [hasTable, ledger, applied, effects]
    op,            \* the API call in progress or last made
    pc,            \* position inside the call; "done" / "raised" when it is over
    migs,          \* apply_migrations: the migrations argument
    last_version,  \* apply_migrations: the local last_version
    it,            \* apply_migrations: the loop iterator, as a 0-based index
    log,           \* engine calls made by the current apply_migrations run
    pre,           \* db as it was when the current call started
    master,        \* disciplined caller: the full list its lists are prefixes of
    prevLen,       \* disciplined caller: length of the list it passed last
    executed,      \* disciplined caller: how often db.execute has run the body
                   \* at each position of its list
    objs,          \* the statement objects: [_statement, _can_fetch] each
    eng,           \* the engine's prepared statement (sqlite3_stmt)
    outs,          \* the output variables of the last fetch, after the call
    sop,           \* the statement call made last
    sres,          \* its outcome: "ok", "row", "norow" or "raised"
    nfetch,        \* fetch calls since the last execute
    lastk,         \* number of outputs passed to the last fetch
    clean,         \* the last execute succeeded and no fetch has raised since
    calls,         \* engine calls made by the last statement call, with their status
    lastArgs,      \* arguments of the execute just made (empty once fetch is called)
    execFrom,      \* whether the execute just made started with a row waiting
    execRows,      \* rows in the result set of the run the last execute made
    own,           \* db and statement objects of a program: [life, kind, h, can_fetch]
    hnd,           \* native handles: [kind, released, failed]
    lastOp,        \* the construction, move or destruction made last
    atype,         \* type adapters: the C++ type T of the value bound and read
    aopt,          \* the value is passed as boost::optional<T>
    aarg,          \* the argument bound
    aslot,         \* the engine's value of the parameter / column
    adest,         \* the destination variable of the column read
    adestWas,      \* the destination as it was before the read
    astep,         \* "start", "bound", "read" or "aborted"
    tslot,         \* text adapters: the engine's text value of the parameter / column
    tbuf,          \* the char[BufSize] destination of the column read
    tbufWas,       \* the destination as it was before the read
    tstep          \* "start", "bound" or "read"

migVars == <<db, committed, op, pc, migs, last_version, it, log, pre, master, prevLen,
            executed>>

stmtVars == <<objs, eng, outs, sop, sres, nfetch, lastk, clean, calls, lastArgs, execFrom, execRows>>

vars == <<db, committed, op, pc, migs, last_version, it, log, pre, master, prevLen,
          executed,
          objs, eng, outs, sop, sres, nfetch, lastk, clean, calls, lastArgs,
          execFrom, execRows, own, hnd, lastOp,
          atype, aopt, aarg, aslot, adest, adestWas, astep,
          tslot, tbuf, tbufWas, tstep>>

textVars == <<tslot, tbuf, tbufWas, tstep>>

adVars == <<atype, aopt, aarg, aslot, adest, adestWas, astep>>

ownVars == <<own, hnd, lastOp>>

----------------------------------------------------------------------------
\* The database behind a connection.

\* applied: the texts executed; effects: the SQL statements that have run.
FreshContent ==
    [hasTable |-> FALSE, ledger |-> <<>>, applied |-> <<>>, effects |-> <<>>]

Content(d) ==
    [hasTable |-> d.hasTable, ledger |-> d.ledger, applied |-> d.applied,
     effects |-> d.effects]

View(c, txn) ==
    [inTxn |-> txn, hasTable |-> c.hasTable, ledger |-> c.ledger, applied |-> c.applied,
     effects |-> c.effects]

\* What is durable after a statement ran on view d: in autocommit mode the
\* statement's change, inside a transaction nothing new.
Durable(d, c) == IF d.inTxn THEN c ELSE Content(d)

SeqMax(s) ==
    IF s = <<>> THEN 0
    ELSE CHOOSE m \in {s[i] : i \in 1..Len(s)} : \A i \in 1..Len(s) : s[i] <= m

\* Mutant: the query reads the first ledger row instead of the maximum.
GetLastAppliedVersion_FirstRow(ledger) == IF ledger = <<>> THEN 0 ELSE ledger[1]

\* get_last_applied_version: SELECT MAX(Version) read into an int that starts
\* at 0; MAX over no rows is NULL, which sqlite3_column_int reads as 0.
GetLastAppliedVersion(ledger) == SeqMax(ledger)

\* Mutant: the comparison also admits an equal count.
NeedsRun_AtLeast(n, v) == n >= v

\* apply_migrations: if (migrations.size() > last_version)
NeedsRun(n, v) == n > v

\* Mutant: the loop starts at the first migration whatever the version.
FirstIndex_FromStart(v) == 0

\* apply_migrations: it = migrations.begin() + last_version
FirstIndex(v) == v

\* Mutant: the recorded version is the 0-based position.
InsertedVersion_ZeroBased(i) == i

\* apply_migrations: the bound parameter std::distance(migrations.begin(), it) + 1
InsertedVersion(i) == i + 1

Entry(name, arg) == [op |-> name, arg |-> arg]

Rest == {"done", "raised"}

----------------------------------------------------------------------------
\* apply_migrations, one engine call per step.

BeginCall(name, list) ==
    /\ pc \in Rest
    /\ op' = name
    /\ migs' = list
    /\ last_version' = 0
    /\ it' = 0
    /\ log' = <<>>
    /\ pre' = db

\* Any caller: any list.
StartApply ==
    \E list \in MigrationLists :
        /\ BeginCall("apply", list)
        /\ pc' = "create"
        /\ UNCHANGED <<db, committed, master, prevLen, executed>>
        /\ UNCHANGED <<stmtVars, ownVars, adVars, textVars>>

\* Most executions of one body the disciplined caller lets happen before it
\* stops calling.
MaxExecutions == 2

\* One more execution of the body at position i of the disciplined caller's
\* list; any other caller keeps no count.
Count(counts, i) ==
    IF i \in DOMAIN counts THEN [counts EXCEPT ![i] = @ + 1] ELSE counts

\* A disciplined caller: each list is the previous one or extends it.
StartApplyDisciplined ==
    \E n \in prevLen..Len(master) :
        /\ \A i \in DOMAIN executed : executed[i] < MaxExecutions
        /\ BeginCall("apply", SubSeq(master, 1, n))
        /\ pc' = "create"
        /\ prevLen' = n
        /\ UNCHANGED <<db, committed, master, executed>>
        /\ UNCHANGED <<stmtVars, ownVars, adVars, textVars>>

CreateVersionInfoTable ==
    /\ pc = "create"
    /\ db' = [db EXCEPT !.hasTable = TRUE]
    /\ committed' = Durable(db', committed)
    /\ log' = Append(log, Entry("create", 0))
    /\ pc' = "query"
    /\ UNCHANGED <<op, migs, last_version, it, pre, master, prevLen, executed>>
    /\ UNCHANGED <<stmtVars, ownVars, adVars, textVars>>

QueryLastVersion ==
    /\ pc = "query"
    /\ last_version' = GetLastAppliedVersion(db.ledger)
    /\ log' = Append(log, Entry("query", 0))
    /\ pc' = IF NeedsRun(Len(migs), last_version') THEN "begin" ELSE "done"
    /\ UNCHANGED <<db, committed, op, migs, it, pre, master, prevLen, executed>>
    /\ UNCHANGED <<stmtVars, ownVars, adVars, textVars>>

ApplyBegin ==
    /\ pc = "begin"
    /\ IF db.inTxn
       THEN /\ pc' = "raised"
            /\ UNCHANGED <<db, it, log>>
       ELSE /\ db' = [db EXCEPT !.inTxn = TRUE]
            /\ it' = FirstIndex(last_version)
            /\ log' = Append(log, Entry("begin", 0))
            /\ pc' = "loop"
    /\ UNCHANGED <<committed, op, migs, last_version, pre, master, prevLen, executed>>
    /\ UNCHANGED <<stmtVars, ownVars, adVars, textVars>>

ApplyBody ==
    /\ pc = "loop"
    /\ it < Len(migs)
    /\ IF IsValidSql(migs[it + 1])
       THEN /\ db' = [db EXCEPT !.applied = Append(@, migs[it + 1]),
                                !.effects = @ \o PreparedStatements(migs[it + 1])]
            /\ executed' = Count(executed, it + 1)
            /\ log' = Append(log, Entry("body", it + 1))
            /\ pc' = "insert"
       ELSE /\ log' = Append(log, Entry("failed", it + 1))
            /\ pc' = "raised"
            /\ UNCHANGED <<db, executed>>
    /\ committed' = Durable(db', committed)
    /\ UNCHANGED <<op, migs, last_version, it, pre, master, prevLen>>
    /\ UNCHANGED <<stmtVars, ownVars, adVars, textVars>>

ApplyInsert ==
    /\ pc = "insert"
    /\ db' = [db EXCEPT !.ledger = Append(@, InsertedVersion(it))]
    /\ committed' = Durable(db', committed)
    /\ log' = Append(log, Entry("insert", InsertedVersion(it)))
    /\ it' = it + 1
    /\ pc' = "loop"
    /\ UNCHANGED <<op, migs, last_version, pre, master, prevLen, executed>>
    /\ UNCHANGED <<stmtVars, ownVars, adVars, textVars>>

ApplyCommit ==
    /\ pc = "loop"
    /\ it >= Len(migs)
    /\ IF db.inTxn
       THEN /\ committed' = Content(db)
            /\ db' = [db EXCEPT !.inTxn = FALSE]
            /\ log' = Append(log, Entry("commit", 0))
            /\ pc' = "done"
       ELSE /\ pc' = "raised"
            /\ UNCHANGED <<db, committed, log>>
    /\ UNCHANGED <<op, migs, last_version, it, pre, master, prevLen, executed>>
    /\ UNCHANGED <<stmtVars, ownVars, adVars, textVars>>

----------------------------------------------------------------------------
\* The connection's own transaction control, and closing and reopening it.

DbBegin ==
    /\ BeginCall("begin", <<>>)
    /\ IF db.inTxn
       THEN pc' = "raised" /\ UNCHANGED db
       ELSE pc' = "done" /\ db' = [db EXCEPT !.inTxn = TRUE]
    /\ UNCHANGED <<committed, master, prevLen, executed>>
    /\ UNCHANGED <<stmtVars, ownVars, adVars, textVars>>

DbCommit ==
    /\ BeginCall("commit", <<>>)
    /\ IF db.inTxn
       THEN pc' = "done" /\ committed' = Content(db) /\ db' = [db EXCEPT !.inTxn = FALSE]
       ELSE pc' = "raised" /\ UNCHANGED <<db, committed>>
    /\ UNCHANGED <<master, prevLen, executed>>
    /\ UNCHANGED <<stmtVars, ownVars, adVars, textVars>>

DbRollback ==
    /\ BeginCall("rollback", <<>>)
    /\ IF db.inTxn
       THEN pc' = "done" /\ db' = View(committed, FALSE)
       ELSE pc' = "raised" /\ UNCHANGED db
    /\ UNCHANGED <<committed, master, prevLen, executed>>
    /\ UNCHANGED <<stmtVars, ownVars, adVars, textVars>>

\* ~db followed by db(filename): sqlite3_close_v2 rolls an open transaction back.
Reopen ==
    /\ BeginCall("reopen", <<>>)
    /\ pc' = "done"
    /\ db' = View(committed, FALSE)
    /\ UNCHANGED <<committed, master, prevLen, executed>>
    /\ UNCHANGED <<stmtVars, ownVars, adVars, textVars>>

----------------------------------------------------------------------------
\* A prepared statement and the statement objects that hold it.

\* Parameter slots and result columns of the prepared SQL, the largest result
\* set, and the most fetch calls the caller makes after one execute.
NumParams == 2
NumCols == 2
MaxRows == 2
MaxFetches == 4

\* execute(args...): up to one argument more than the SQL has parameters,
\* all of one value, or with another value in the first place.
ArgLists ==
    {[i \in 1..k |-> "p"] : k \in 0..(NumParams + 1)}
        \cup {[i \in 1..k |-> IF i = 1 THEN "q" ELSE "p"] : k \in 1..NumParams}

Objects == {"A", "B"}

\* In-class initialisers: _can_fetch = false, _statement = nullptr (0).
DefaultObject == [h |-> 0, can_fetch |-> FALSE]

\* What the caller's output variables hold when it passes them to fetch.
InitialOuts == [j \in 1..NumCols |-> 0]

\* The value of column c (0-based) in row r (1-based) of the result set.
RowValue(r, c) == 10 * r + c

\* What a column read may return when the statement is not on a row.
UndefinedReads == {0, 99}

\* sqlite3_reset: back to the start; reports the error of the last step if it
\* failed (a run left waiting on a lock included); bindings are kept.
SqliteReset(e) ==
    [rc  |-> IF e.state \in {"error", "busy"} THEN "ERROR" ELSE "OK",
     eng |-> [e EXCEPT !.state = "ready", !.cursor = 0, !.nrows = 0, !.unread = FALSE,
                       !.runs = 0]]

\* sqlite3_bind_*: fails for an index the SQL has no parameter for, which
\* touches no parameter, or when the engine cannot take the value (fail: too
\* big, out of memory); the engine has dropped the parameter's previous value
\* by then, so the parameter is left NULL.
SqliteBind(e, index, value, fail) ==
    IF index \notin 1..NumParams THEN [rc |-> "RANGE", eng |-> e]
    ELSE IF fail THEN [rc |-> "NOMEM", eng |-> [e EXCEPT !.bound[index] = "NULL"]]
    ELSE [rc |-> "OK", eng |-> [e EXCEPT !.bound[index] = value]]

\* How a step may fail: not at all; before the program of the statement
\* starts (interrupt); with an error while the program runs; or on a lock
\* another connection holds (busy), which leaves the run waiting.
StepFaults == {"none", "before", "running", "busy"}

\* Whether a step on a statement in this state starts a run of the SQL: at
\* its start, after completion and after a failure it does; between rows and
\* while a run waits on a lock it continues the run it has.
StartsRun(state) == state \notin {"row", "busy"}

\* sqlite3_step: the next row or completion.  A step that starts a run, or
\* continues one that waited on a lock, finds the result set the database
\* has for the bindings in force: n rows.  A step that fails while the
\* program runs, or on a lock, has started its run; one that fails on a lock
\* leaves the run waiting, and the next step continues that run from its
\* first row.  nrows is the size of the result set of the run that is
\* delivering rows, 0 when none is.
SqliteStep(e, fail, n) ==
    IF fail = "busy"
    THEN [rc |-> "ERROR",
          eng |-> [e EXCEPT !.state = "busy", !.cursor = 0, !.nrows = 0, !.unread = FALSE,
                            !.runs = IF StartsRun(e.state) THEN @ + 1 ELSE @]]
    ELSE IF fail # "none"
    THEN [rc |-> "ERROR",
          eng |-> [e EXCEPT !.state = "error", !.cursor = 0, !.nrows = 0, !.unread = FALSE,
                            !.runs = IF fail = "running" /\ StartsRun(e.state)
                                     THEN @ + 1 ELSE @]]
    ELSE IF e.state = "row"
    THEN IF e.cursor < e.nrows
         THEN [rc |-> "ROW", eng |-> [e EXCEPT !.cursor = @ + 1, !.unread = TRUE]]
         ELSE [rc |-> "DONE",
               eng |-> [e EXCEPT !.state = "done", !.cursor = 0, !.nrows = 0,
                                 !.unread = FALSE]]
    ELSE IF n = 0
    THEN [rc |-> "DONE",
          eng |-> [e EXCEPT !.state = "done", !.cursor = 0, !.unread = FALSE,
                            !.nrows = n,
                            !.runs = IF StartsRun(e.state) THEN @ + 1 ELSE @]]
    ELSE [rc |-> "ROW",
          eng |-> [e EXCEPT !.state = "row", !.cursor = 1, !.unread = TRUE,
                            !.nrows = n,
                            !.runs = IF StartsRun(e.state) THEN @ + 1 ELSE @]]

\* sqlite3_column_*: column c of the current row.
SqliteColumn(e, c, undef) == IF e.state = "row" THEN RowValue(e.cursor, c) ELSE undef

\* One engine call in the log of a statement call.
Call(name, arg, rc) == [op |-> name, arg |-> arg, rc |-> rc]

\* Mutant: every argument is bound at position 1.
BindIndex_First(i) == 1

\* statement::bind<Index = 1>: the i-th argument is bound at position i.
BindIndex(i) == i

\* statement::bind<Index>(policy, arg, args...): binds args[index..] at the
\* 1-based positions index.., stopping at the first status that is not OK.
\* The result carries the engine calls made.
RECURSIVE BindFrom(_, _, _, _)
BindFrom(e, args, index, failAt) ==
    IF index > Len(args) THEN [rc |-> "OK", eng |-> e, calls |-> <<>>]
    ELSE LET r == SqliteBind(e, BindIndex(index), args[index], failAt = index)
             c == Call("bind", BindIndex(index), r.rc)
         IN  IF r.rc # "OK"
             THEN [rc |-> r.rc, eng |-> r.eng, calls |-> <<c>>]
             ELSE LET rest == BindFrom(r.eng, args, index + 1, failAt)
                  IN  [rc |-> rest.rc, eng |-> rest.eng, calls |-> <<c>> \o rest.calls]


\* statement::step: if (res != SQLITE_ROW && res != SQLITE_DONE) throw
StepRaises(rc) == rc # "ROW" /\ rc # "DONE"


\* statement::step: _can_fetch = res == SQLITE_ROW
StepSetsFlag(rc) == rc = "ROW"


\* statement::fetch: if (!_can_fetch) step();
FetchNeedsStep(can_fetch) == ~can_fetch

\* statement::column<Column = 0>: the j-th output reads column j - 1.
ColumnIndex(j) == j - 1

\* statement::column(args...): the first k of the caller's variables are
\* assigned, in order; the others are not passed and keep their values.
ColumnAll(e, o, k, undef) ==
    [j \in 1..NumCols |-> IF j <= k THEN SqliteColumn(e, ColumnIndex(j), undef) ELSE o[j]]

NoExecute == "none"

\* statement::execute(args...): reset(); bind(args...); step();
Execute ==
    \E o \in Objects, args \in ArgLists, failAt \in 0..(NumParams + 1),
       stepFail \in StepFaults, n \in 0..MaxRows :
        /\ objs[o].h # 0
        /\ failAt <= Len(args)
        \* one engine fault per call at most; n matters only without one
        /\ (failAt # 0 \/ stepFail # "none") => n = 0
        /\ failAt # 0 => stepFail = "none"
        /\ LET r1 == SqliteReset(eng)
               r2 == BindFrom(r1.eng, args, 1, failAt)
               r3 == SqliteStep(r2.eng, stepFail, n)
               c1 == <<Call("reset", 0, r1.rc)>>
               c3 == <<Call("step", 0, r3.rc)>>
           IN  IF r1.rc # "OK"
               THEN /\ eng' = r1.eng /\ sres' = "raised" /\ UNCHANGED objs
                    /\ calls' = c1
               ELSE IF r2.rc # "OK"
               THEN /\ eng' = r2.eng /\ sres' = "raised" /\ UNCHANGED objs
                    /\ calls' = c1 \o r2.calls
               ELSE IF StepRaises(r3.rc)
               THEN /\ eng' = r3.eng /\ sres' = "raised" /\ UNCHANGED objs
                    /\ calls' = c1 \o r2.calls \o c3
               ELSE /\ eng' = r3.eng
                    /\ sres' = "ok"
                    /\ objs' = [objs EXCEPT ![o].can_fetch = StepSetsFlag(r3.rc)]
                    /\ calls' = c1 \o r2.calls \o c3
        /\ lastArgs' = args
        /\ execFrom' = IF eng.state = "row" /\ objs[o].can_fetch
                       THEN "row waiting" ELSE "no row waiting"
        /\ execRows' = n
        /\ sop' = "execute"
        /\ nfetch' = 0
        /\ lastk' = 0
        /\ clean' = (sres' = "ok")
        /\ outs' = InitialOuts
        /\ UNCHANGED <<migVars, ownVars, adVars, textVars>>

\* statement::fetch(args...) with k output arguments.
Fetch ==
    \E o \in Objects, k \in 0..NumCols, stepFail \in StepFaults,
       n \in 0..MaxRows, undef \in UndefinedReads :
        /\ objs[o].h # 0
        /\ nfetch < MaxFetches
        \* the choices that cannot matter are fixed: a fault where no step is
        \* made, and the size of a result set where the step finds none; a
        \* run that has delivered a row holds its lock and waits on none
        /\ stepFail # "none" => FetchNeedsStep(objs[o].can_fetch)
        /\ stepFail = "busy" => eng.state # "row"
        /\ (~FetchNeedsStep(objs[o].can_fetch) \/ stepFail # "none" \/ eng.state = "row")
               => n = 0
        /\ (undef # 0) => (objs[o].can_fetch /\ eng.state # "row")
        /\ LET stepped == FetchNeedsStep(objs[o].can_fetch)
               r == IF stepped THEN SqliteStep(eng, stepFail, n)
                               ELSE [rc |-> "NONE", eng |-> eng]
               raised == stepped /\ StepRaises(r.rc)
               flag == IF stepped /\ ~raised THEN StepSetsFlag(r.rc) ELSE objs[o].can_fetch
           IN  IF raised
               THEN /\ eng' = r.eng
                    /\ sres' = "raised"
                    /\ outs' = InitialOuts
                    /\ UNCHANGED objs
               ELSE IF flag
               THEN /\ outs' = ColumnAll(r.eng, InitialOuts, k, undef)
                    /\ objs' = [objs EXCEPT ![o].can_fetch = FALSE]
                    /\ eng' = [r.eng EXCEPT !.unread = FALSE]
                    /\ sres' = "row"
               ELSE /\ objs' = [objs EXCEPT ![o].can_fetch = flag]
                    /\ eng' = r.eng
                    /\ sres' = "norow"
                    /\ outs' = InitialOuts
        /\ calls' = IF FetchNeedsStep(objs[o].can_fetch)
                     THEN <<Call("step", 0,
                                 SqliteStep(eng, stepFail, n).rc)>>
                     ELSE <<>>
        /\ lastArgs' = <<>>
        /\ execFrom' = NoExecute
        /\ UNCHANGED execRows
        /\ sop' = "fetch"
        /\ nfetch' = nfetch + 1
        /\ lastk' = k
        /\ clean' = (clean /\ sres' # "raised")
        /\ UNCHANGED <<migVars, ownVars, adVars, textVars>>

\* std::swap(_statement, another._statement); std::swap(_can_fetch, another._can_fetch);
SwapObjects(dst, src) == [objs EXCEPT ![dst] = objs[src], ![src] = objs[dst]]

\* statement(statement &&another): the new object starts from its in-class
\* initialisers and swaps with the source.
MoveConstruct ==
    \E dst \in Objects, src \in Objects :
        /\ dst # src
        /\ objs[dst] = DefaultObject
        /\ objs' = SwapObjects(dst, src)
        /\ UNCHANGED <<eng, outs, sop, sres, nfetch, lastk, clean, calls, lastArgs, execFrom, execRows>>
        /\ UNCHANGED <<migVars, ownVars, adVars, textVars>>

\* operator=(statement &&another)
MoveAssign ==
    \E dst \in Objects, src \in Objects :
        /\ objs' = SwapObjects(dst, src)
        /\ UNCHANGED <<eng, outs, sop, sres, nfetch, lastk, clean, calls, lastArgs, execFrom, execRows>>
        /\ UNCHANGED <<migVars, ownVars, adVars, textVars>>

\* db::prepare: object A holds the prepared statement, B holds nothing.
InitStmt ==
    /\ objs = [o \in Objects |-> IF o = "A" THEN [h |-> 1, can_fetch |-> FALSE]
                                            ELSE DefaultObject]
    /\ eng = [state |-> "ready", cursor |-> 0, nrows |-> 0, runs |-> 0,
              unread |-> FALSE, bound |-> [i \in 1..NumParams |-> "NULL"]]
    /\ outs = InitialOuts
    /\ sop = "prepare"
    /\ sres = "ok"
    /\ nfetch = 0
    /\ lastk = 0
    /\ calls = <<>>
    /\ lastArgs = <<>>
    /\ execFrom = NoExecute
    /\ execRows = 0
    /\ clean = FALSE

----------------------------------------------------------------------------
(* Ownership of native handles by db and statement objects.                *)

NumOwners == 3

NumHandles == 2

Owners == 1..NumOwners

Handles == 1..NumHandles

\* A handle the engine has not given out yet; 0 (nullptr) is no handle.
UnusedHandle == [kind |-> "none", released |-> 0, failed |-> FALSE]

\* sqlite3 *_db = nullptr; sqlite3_stmt *_statement = nullptr; bool _can_fetch = false;
NoObject == [life |-> "unborn", kind |-> "none", h |-> 0, can_fetch |-> FALSE]

NewObject(kind) == [life |-> "live", kind |-> kind, h |-> 0, can_fetch |-> FALSE]

\* An operation on an object, with the engine calls it made that hand out or
\* release a handle or read the diagnostic message, in order.
Op(name, kind, src, dst, srcWas, dstWas, rc, engineCalls) ==
    [op |-> name, kind |-> kind, src |-> src, dst |-> dst, srcWas |-> srcWas,
     dstWas |-> dstWas, rc |-> rc, calls |-> engineCalls]

\* The handle sqlite3_open_v2 / sqlite3_prepare_v3 hands out next.
NextHandle == CHOOSE h \in Handles :
    /\ hnd[h].kind = "none"
    /\ \A g \in Handles : hnd[g].kind = "none" => h <= g

\* sqlite3_close_v2(h) / sqlite3_finalize(h); both do nothing for nullptr.
Release(hs, h) ==
    IF h = 0 THEN hs ELSE [hs EXCEPT ![h].released = @ + 1]

\* Mutant: a failed open does not close the handle.
FailedOpen_NoClose(hs, h) == [hs EXCEPT ![h] = [kind |-> "db", released |-> 0, failed |-> TRUE]]

\* db::db, res != SQLITE_OK: sqlite3_close_v2(_db) on the handle that
\* sqlite3_open_v2 left in _db.
FailedOpen(hs, h) ==
    Release([hs EXCEPT ![h] = [kind |-> "db", released |-> 0, failed |-> TRUE]], h)

\* Mutant: the destination takes the source's members, the source keeps them.
SwapMembers_CopyOnly(o, dst, src) ==
    [o EXCEPT ![dst].h = o[src].h, ![dst].can_fetch = o[src].can_fetch]


\* std::swap(_db, another._db); for a statement std::swap(_statement, ...) and
\* std::swap(_can_fetch, ...).
SwapMembers(o, dst, src) ==
    [o EXCEPT ![dst].h = o[src].h, ![dst].can_fetch = o[src].can_fetch,
              ![src].h = o[dst].h, ![src].can_fetch = o[dst].can_fetch]

\* Calling into the engine with a handle that was released is undefined: the
\* call returns something, or the process dies.
UseAfterRelease == {"raised", "crashed"}

Running == lastOp.rc # "crashed"

\* db::db(filename, flags): sqlite3_open_v2 succeeds; or fails leaving a
\* handle in _db, which is closed and then passed to sqlite3_errmsg by
\* exception(_db); or fails without a handle (out of memory).
DbOpen ==
    \E s \in Owners :
        /\ Running
        /\ own[s].life = "unborn"
        /\ \/ /\ \E h \in Handles : hnd[h].kind = "none"
              /\ own' = [own EXCEPT ![s] = [NewObject("db") EXCEPT !.h = NextHandle]]
              /\ hnd' = [hnd EXCEPT ![NextHandle].kind = "db"]
              /\ lastOp' = Op("open", "db", 0, s, 0, NextHandle, "ok", <<"sqlite3_open_v2">>)
           \/ /\ \E h \in Handles : hnd[h].kind = "none"
              /\ hnd' = FailedOpen(hnd, NextHandle)
              /\ \E rc \in UseAfterRelease :
                    lastOp' = Op("open", "db", 0, s, 0, NextHandle, rc,
                                 <<"sqlite3_open_v2", "sqlite3_close_v2", "sqlite3_errmsg">>)
              /\ UNCHANGED own
           \/ /\ lastOp' = Op("open", "db", 0, s, 0, 0, "raised",
                              <<"sqlite3_open_v2", "sqlite3_close_v2", "sqlite3_errmsg">>)
              /\ UNCHANGED <<own, hnd>>
        /\ UNCHANGED <<migVars, stmtVars, adVars, textVars>>

\* The statement db::execute has prepared when its s.execute(args...) raises:
\* the local statement is destroyed on the way out, which finalizes the
\* handle.
FailedExecute(hs, h) ==
    Release([hs EXCEPT ![h] = [kind |-> "statement", released |-> 0, failed |-> FALSE]], h)

\* statement::statement(db, sql, flags), also as made by db::prepare and by
\* db::execute (whose step may leave a row waiting).  sqlite3_prepare_v3
\* succeeds and hands out a statement; or it succeeds on a text that holds no
\* SQL (empty, blank, a comment) and leaves nullptr in _statement, which
\* gives a statement object that holds nothing; or it fails, leaves nullptr
\* and the constructor raises (as db::execute does on a text that holds no
\* SQL, its step being refused); or, in db::execute, it succeeds and the
\* execute of the new statement raises, so that no statement is returned.
StatementPrepare ==
    \E s \in Owners :
        /\ Running
        /\ own[s].life = "unborn"
        /\ \/ /\ \E h \in Handles : hnd[h].kind = "none"
              /\ \E row \in BOOLEAN :
                    own' = [own EXCEPT ![s] = [NewObject("statement") EXCEPT
                                                    !.h = NextHandle, !.can_fetch = row]]
              /\ hnd' = [hnd EXCEPT ![NextHandle].kind = "statement"]
              /\ lastOp' = Op("prepare", "statement", 0, s, 0, NextHandle, "ok",
                              <<"sqlite3_prepare_v3">>)
           \/ /\ own' = [own EXCEPT ![s] = NewObject("statement")]
              /\ lastOp' = Op("prepare", "statement", 0, s, 0, 0, "ok",
                              <<"sqlite3_prepare_v3">>)
              /\ UNCHANGED hnd
           \/ /\ lastOp' = Op("prepare", "statement", 0, s, 0, 0, "raised",
                              <<"sqlite3_prepare_v3", "sqlite3_errmsg">>)
              /\ UNCHANGED <<own, hnd>>
           \/ /\ \E h \in Handles : hnd[h].kind = "none"
              /\ hnd' = FailedExecute(hnd, NextHandle)
              /\ lastOp' = Op("prepare", "statement", 0, s, 0, NextHandle, "raised",
                              <<"sqlite3_prepare_v3", "sqlite3_errmsg", "sqlite3_finalize">>)
              /\ UNCHANGED own
        /\ UNCHANGED <<migVars, stmtVars, adVars, textVars>>

\* statement::execute on a live statement object: the step leaves a row
\* waiting or none and _can_fetch says which; or reset, a bind or the step
\* fails and the call raises with _can_fetch as it was.  On an object that
\* holds no statement the engine refuses the step and the call raises.
OwnerExecute ==
    \E s \in Owners :
        /\ Running
        /\ own[s].life = "live"
        /\ own[s].kind = "statement"
        /\ \/ /\ own[s].h # 0
              /\ \E row \in BOOLEAN : own' = [own EXCEPT ![s].can_fetch = row]
              /\ lastOp' = Op("execute", "statement", 0, s, 0, own[s].h, "ok", <<>>)
           \/ /\ lastOp' = Op("execute", "statement", 0, s, 0, own[s].h, "raised",
                              <<"sqlite3_errmsg">>)
              /\ UNCHANGED own
        /\ UNCHANGED hnd
        /\ UNCHANGED <<migVars, stmtVars, adVars, textVars>>

\* statement::fetch on a live statement object: it reads the waiting row, or
\* steps and reads the row the step found, or returns false; _can_fetch is
\* false afterwards.  When the step fails the call raises; fetch steps only
\* with _can_fetch false, and so it is then too.
OwnerFetch ==
    \E s \in Owners :
        /\ Running
        /\ own[s].life = "live"
        /\ own[s].kind = "statement"
        /\ \/ /\ own[s].h # 0
              /\ own' = [own EXCEPT ![s].can_fetch = FALSE]
              /\ lastOp' = Op("fetch", "statement", 0, s, 0, own[s].h, "ok", <<>>)
           \/ /\ ~own[s].can_fetch
              /\ lastOp' = Op("fetch", "statement", 0, s, 0, own[s].h, "raised",
                              <<"sqlite3_errmsg">>)
              /\ UNCHANGED own
        /\ UNCHANGED hnd
        /\ UNCHANGED <<migVars, stmtVars, adVars, textVars>>

\* db(db &&another) / statement(statement &&another): the new object starts
\* from its in-class initialisers and swaps with the source.
OwnerMoveConstruct ==
    \E src \in Owners, dst \in Owners :
        /\ Running
        /\ own[src].life = "live"
        /\ own[dst].life = "unborn"
        /\ own' = SwapMembers([own EXCEPT ![dst] = NewObject(own[src].kind)], dst, src)
        /\ lastOp' = Op("moveconstruct", own[src].kind, src, dst, own[src].h, 0, "ok", <<>>)
        /\ UNCHANGED hnd
        /\ UNCHANGED <<migVars, stmtVars, adVars, textVars>>

\* operator=(db &&another) / operator=(statement &&another), x = std::move(x)
\* included.
OwnerMoveAssign ==
    \E src \in Owners, dst \in Owners :
        /\ Running
        /\ own[src].life = "live"
        /\ own[dst].life = "live"
        /\ own[src].kind = own[dst].kind
        /\ own' = SwapMembers(own, dst, src)
        /\ lastOp' = Op("moveassign", own[src].kind, src, dst, own[src].h, own[dst].h,
                        "ok", <<>>)
        /\ UNCHANGED hnd
        /\ UNCHANGED <<migVars, stmtVars, adVars, textVars>>

\* ~db: if (_db) sqlite3_close_v2(_db); ~statement: if (_statement)
\* sqlite3_finalize(_statement).
Destroy ==
    \E s \in Owners :
        /\ Running
        /\ own[s].life = "live"
        /\ own' = [own EXCEPT ![s].life = "dead"]
        /\ hnd' = IF own[s].h # 0 THEN Release(hnd, own[s].h) ELSE hnd
        /\ lastOp' = Op("destroy", own[s].kind, s, 0, own[s].h, 0, "ok",
                        IF own[s].h = 0 THEN <<>>
                        ELSE IF own[s].kind = "db" THEN <<"sqlite3_close_v2">>
                        ELSE <<"sqlite3_finalize">>)
        /\ UNCHANGED <<migVars, stmtVars, adVars, textVars>>

\* A program that has not constructed anything yet.
InitOwn ==
    /\ own = [s \in Owners |-> NoObject]
    /\ hnd = [h \in Handles |-> UnusedHandle]
    /\ lastOp = Op("start", "none", 0, 0, 0, 0, "ok", <<>>)

----------------------------------------------------------------------------
(* Type adapters (type_traits<T>) for bool, integral and enumeration types *)
(* and boost::optional of them.  Integer widths are scaled down: a type of *)
(* at most 4 bytes has NarrowBits or IntBits bits, int has IntBits bits, a  *)
(* type of 8 bytes and the engine's integer have Int64Bits bits.            *)

NarrowBits == 2

IntBits == 4

Int64Bits == 8

RECURSIVE Pow2(_)
Pow2(n) == IF n = 0 THEN 1 ELSE 2 * Pow2(n - 1)

CType(kind, bits, signed) == [kind |-> kind, bits |-> bits, signed |-> signed]

\* int, as taken by sqlite3_bind_int and returned by sqlite3_column_int.
IntType == CType("int", IntBits, TRUE)

\* int64_t / sqlite3_int64.
Int64Type == CType("int", Int64Bits, TRUE)

BoolType == CType("bool", NarrowBits, FALSE)

IntegralTypes ==
    {CType("int", b, sg) : b \in {NarrowBits, IntBits, Int64Bits}, sg \in BOOLEAN}

\* Enumerations, by their underlying type.
EnumTypes == {CType("enum", t.bits, t.signed) : t \in IntegralTypes}

CTypes == {BoolType} \cup IntegralTypes \cup EnumTypes

\* std::underlying_type<T>::type
Underlying(T) == CType("int", T.bits, T.signed)

ValuesOf(T) ==
    IF T.kind = "bool" THEN {0, 1}
    ELSE IF T.signed THEN (0 - Pow2(T.bits - 1))..(Pow2(T.bits - 1) - 1)
    ELSE 0..(Pow2(T.bits) - 1)

\* static_cast<T>(x) of an integer: the value modulo 2^bits in the range of T;
\* for bool, whether x is not zero.
StaticCast(T, x) ==
    IF T.kind = "bool" THEN (IF x # 0 THEN 1 ELSE 0)
    ELSE LET m == x % Pow2(T.bits)
         IN  IF T.signed /\ m >= Pow2(T.bits - 1) THEN m - Pow2(T.bits) ELSE m

None == [present |-> FALSE, v |-> 0]

Some(v) == [present |-> TRUE, v |-> v]

NullValue == [type |-> "NULL", v |-> 0]

\* sqlite3_bind_int(statement, index, int): the engine stores the int as its
\* integer of Int64Bits bits.
SqliteBindInt(x) == [type |-> "INTEGER", v |-> StaticCast(Int64Type, StaticCast(IntType, x))]

SqliteBindInt64(x) == [type |-> "INTEGER", v |-> StaticCast(Int64Type, x)]

\* sqlite3_column_int: the low IntBits bits of the integer, 0 for NULL.
SqliteColumnInt(val) == IF val.type = "NULL" THEN 0 ELSE StaticCast(IntType, val.v)

SqliteColumnInt64(val) == IF val.type = "NULL" THEN 0 ELSE val.v

\* Mutant: every integral type goes through the engine's int.
UsesInt64_Never(T) == FALSE

\* enable_if<is_integral<T>::value && sizeof(T) == 8> against sizeof(T) <= 4
UsesInt64(T) == T.bits = Int64Bits

\* type_traits<T>::bind for integral T
IntegralBind(T, arg) ==
    IF UsesInt64(T) THEN SqliteBindInt64(StaticCast(Int64Type, arg))
    ELSE SqliteBindInt(StaticCast(IntType, arg))

\* type_traits<T>::column for integral T
IntegralColumn(T, val) ==
    IF UsesInt64(T) THEN StaticCast(T, SqliteColumnInt64(val))
    ELSE StaticCast(T, SqliteColumnInt(val))

\* type_traits<T>::bind for bool, integral and enumeration types
TypeBind(T, arg) ==
    IF T.kind = "bool" THEN SqliteBindInt(IF arg # 0 THEN 1 ELSE 0)
    ELSE IF T.kind = "enum"
    THEN IntegralBind(Underlying(T), StaticCast(Underlying(T), arg))
    ELSE IntegralBind(T, arg)

\* type_traits<T>::column for bool, integral and enumeration types
TypeColumn(T, val) ==
    IF T.kind = "bool" THEN (IF SqliteColumnInt(val) # 0 THEN 1 ELSE 0)
    ELSE IF T.kind = "enum"
    THEN StaticCast(T, IntegralColumn(Underlying(T), val))
    ELSE IntegralColumn(T, val)

\* type_traits<boost::optional<T>>::bind
OptionalBind(T, arg) ==
    IF arg.present THEN TypeBind(T, arg.v) ELSE NullValue

\* Mutant: a NULL column leaves the destination as it is.
NullRead_Keep(dest) == dest

\* type_traits<boost::optional<T>>::column, NULL column: arg = boost::none
NullRead(dest) == None

\* *arg of an optional that holds nothing is undefined: BOOST_ASSERT ends the
\* process, or the value goes to the storage of an optional that stays empty.
DerefAbsent == {"aborted", "read"}

\* type_traits<T>::bind, T chosen by the caller's argument type.
AdapterBind ==
    \E T \in CTypes, opt \in BOOLEAN :
        \E arg \in {Some(v) : v \in ValuesOf(T)} \cup (IF opt THEN {None} ELSE {}) :
            /\ astep = "start"
            /\ atype' = T
            /\ aopt' = opt
            /\ aarg' = arg
            /\ aslot' = IF opt THEN OptionalBind(T, arg) ELSE TypeBind(T, arg.v)
            /\ astep' = "bound"
            /\ UNCHANGED <<adest, adestWas>>
            /\ UNCHANGED <<migVars, stmtVars, ownVars, textVars>>

\* type_traits<T>::column into a destination of the type that was bound; an
\* optional destination holds nothing or some value before the read.
AdapterColumn ==
    \E was \in {Some(0)} \cup (IF aopt THEN {None, Some(1)} ELSE {}) :
        /\ astep = "bound"
        /\ adestWas' = was
        /\ IF ~aopt
           THEN /\ adest' = Some(TypeColumn(atype, aslot))
                /\ astep' = "read"
           ELSE IF aslot.type = "NULL"
           THEN /\ adest' = NullRead(was)
                /\ astep' = "read"
           ELSE IF was.present
           THEN /\ adest' = Some(TypeColumn(atype, aslot))
                /\ astep' = "read"
           ELSE /\ adest' = was
                /\ astep' \in DerefAbsent
        /\ UNCHANGED <<atype, aopt, aarg, aslot>>
        /\ UNCHANGED <<migVars, stmtVars, ownVars, textVars>>

InitAd ==
    /\ atype = IntType
    /\ aopt = FALSE
    /\ aarg = Some(0)
    /\ aslot = NullValue
    /\ adest = Some(0)
    /\ adestWas = Some(0)
    /\ astep = "start"

----------------------------------------------------------------------------
(* Text adapters: type_traits<std::string>::bind, type_traits<char[Size]>. *)

\* Size of the char[Size] buffers.
BufSize == 3

\* Longest text of a column.
MaxText == 4

NUL == "NUL"

\* Characters of a text; "?" is a byte that is not NUL in memory nobody wrote.
TextChars == {"x", "y"}

Uninitialised == {NUL, "?"}

\* The texts a std::string holds.
Strings == UNION {[1..n -> TextChars] : n \in 0..MaxText}

\* A char[BufSize] as its owner may have left it: never written, or holding
\* a string.
Buffers == [1..BufSize -> Uninitialised] \cup [1..BufSize -> TextChars \cup {NUL}]

\* strlen of a char sequence followed by a terminator.
RECURSIVE StrLen(_)
StrLen(str) ==
    IF str = <<>> \/ Head(str) = NUL THEN 0 ELSE 1 + StrLen(Tail(str))

\* strncpy(dst, src, n): the first n characters of src, filled up with NUL
\* when src is shorter than n; no NUL is written when it is not, and dst is
\* untouched from position n on.
Strncpy(dst, src, n) ==
    [i \in 1..Len(dst) |->
        IF i > n THEN dst[i]
        ELSE IF i <= StrLen(src) THEN src[i]
        ELSE NUL]

\* type_traits<std::string>::bind: sqlite3_bind_text(arg.c_str(), arg.size())
StringBind(str) == str

\* type_traits<char[Size]>::bind: sqlite3_bind_text(arg, Size - 1), the first
\* Size - 1 bytes of the array whatever they are.
CharArrayBind(buf) == SubSeq(buf, 1, BufSize - 1)

\* type_traits<char[Size]>::column: data = sqlite3_column_text (the text with
\* a terminator); strncpy(arg, data, Size - 1).
CharArrayColumn(buf, val) == Strncpy(buf, val, BufSize - 1)

\* A text is bound from a std::string or from a char[BufSize].
TextBind ==
    /\ tstep = "start"
    /\ \/ \E str \in Strings : tslot' = StringBind(str)
       \/ \E buf \in Buffers : tslot' = CharArrayBind(buf)
    /\ tstep' = "bound"
    /\ UNCHANGED <<tbuf, tbufWas>>
    /\ UNCHANGED <<migVars, stmtVars, ownVars, adVars>>

\* The text is read into a char[BufSize] destination.
TextColumn ==
    \E was \in Buffers :
        /\ tstep = "bound"
        /\ tbufWas' = was
        /\ tbuf' = CharArrayColumn(was, tslot)
        /\ tstep' = "read"
        /\ UNCHANGED tslot
        /\ UNCHANGED <<migVars, stmtVars, ownVars, adVars>>

InitText ==
    /\ tslot = <<>>
    /\ tbuf = [i \in 1..BufSize |-> NUL]
    /\ tbufWas = [i \in 1..BufSize |-> NUL]
    /\ tstep = "start"

ApplySteps ==
    \/ CreateVersionInfoTable
    \/ QueryLastVersion
    \/ ApplyBegin
    \/ ApplyBody
    \/ ApplyInsert
    \/ ApplyCommit

CallerSteps ==
    \/ DbBegin
    \/ DbCommit
    \/ DbRollback
    \/ Reopen

InitMigCommon ==
    /\ db = View(FreshContent, FALSE)
    /\ committed = FreshContent
    /\ op = "open"
    /\ pc = "done"
    /\ migs = <<>>
    /\ last_version = 0
    /\ it = 0
    /\ log = <<>>
    /\ pre = View(FreshContent, FALSE)
    /\ prevLen = 0

InitMig == InitMigCommon /\ master = <<>> /\ executed = <<>> /\ InitStmt /\ InitOwn /\ InitAd /\ InitText

InitDisciplined ==
    /\ InitMigCommon
    /\ master \in [1..MaxLen -> SqlTexts]
    /\ executed = [i \in 1..MaxLen |-> 0]
    /\ InitStmt /\ InitOwn /\ InitAd /\ InitText

InitStatement == InitMigCommon /\ master = <<>> /\ executed = <<>> /\ InitStmt /\ InitOwn /\ InitAd /\ InitText

NextMig == StartApply \/ ApplySteps \/ CallerSteps

NextDisciplined == StartApplyDisciplined \/ ApplySteps \/ CallerSteps

SpecMig == InitMig /\ [][NextMig]_vars

SpecDisciplined == InitDisciplined /\ [][NextDisciplined]_vars

NextStatement == Execute \/ Fetch \/ MoveConstruct \/ MoveAssign

SpecStatement == InitStatement /\ [][NextStatement]_vars

InitOwnership == InitMigCommon /\ master = <<>> /\ executed = <<>> /\ InitStmt /\ InitOwn /\ InitAd /\ InitText

NextOwnership ==
    \/ DbOpen
    \/ StatementPrepare
    \/ OwnerExecute
    \/ OwnerFetch
    \/ OwnerMoveConstruct
    \/ OwnerMoveAssign
    \/ Destroy

SpecOwnership == InitOwnership /\ [][NextOwnership]_vars

InitAdapters == InitMigCommon /\ master = <<>> /\ executed = <<>> /\ InitStmt /\ InitOwn /\ InitAd /\ InitText

NextAdapters == AdapterBind \/ AdapterColumn

SpecAdapters == InitAdapters /\ [][NextAdapters]_vars

InitTextAdapters ==
    InitMigCommon /\ master = <<>> /\ executed = <<>> /\ InitStmt /\ InitOwn /\ InitAd /\ InitText

NextTextAdapters == TextBind \/ TextColumn

SpecTextAdapters == InitTextAdapters /\ [][NextTextAdapters]_vars

----------------------------------------------------------------------------
\* Claims about the migration runner.

Versions(a, b) == [j \in 1..(b - a) |-> a + j]

Texts(list, a, b) == SubSeq(list, a + 1, b)

IsPrefix(s, t) == Len(s) <= Len(t) /\ SubSeq(t, 1, Len(s)) = s

\* The engine calls of a run that finds version v and applies positions v+1..n.
BodyInsertPairs(v, n) ==
    [j \in 1..(2 * (n - v)) |->
        IF j % 2 = 1 THEN Entry("body", v + (j + 1) \div 2)
                     ELSE Entry("insert", v + j \div 2)]

ExpectedLog(v, n) ==
    <<Entry("create", 0), Entry("query", 0), Entry("begin", 0)>>
        \o BodyInsertPairs(v, n) \o <<Entry("commit", 0)>>

AllValid(list, a, b) == \A i \in (a + 1)..b : IsValidSql(list[i])

BodyFailed == \E i \in 1..Len(log) : log[i].op = "failed"

FreshRun ==
    /\ op = "apply"
    /\ pre.ledger = <<>>
    /\ ~pre.inTxn
    /\ Len(migs) >= 1
    /\ AllValid(migs, 0, Len(migs))

\* C1: a run on an empty ledger (no transaction open at the call) with n >= 1
\* bodies that all succeed makes its engine calls in the order create, query,
\* begin, (body i, insert Version = i) for i = 1..n, commit, never raises, and
\* ends with the ledger holding exactly 1, 2, ..., n in that order.
C1_FreshRunAppliesInOrder ==
    FreshRun =>
        /\ pc # "raised"
        /\ IsPrefix(log, ExpectedLog(0, Len(migs)))
        /\ pc = "done" =>
            /\ log = ExpectedLog(0, Len(migs))
            /\ db.ledger = Versions(0, Len(migs))
            /\ committed.ledger = Versions(0, Len(migs))
            /\ ~db.inTxn

C1_Witness == FreshRun /\ pc = "done" /\ Len(migs) = MaxLen /\ Len(db.ledger) = MaxLen

\* C2: when a migration body fails, apply_migrations raises and the version
\* query on the connection reads what it read before the run; no ledger row
\* and no effect of the run's earlier bodies is present.
C2_FailedRunLeavesNothing ==
    (op = "apply" /\ pc = "raised" /\ BodyFailed) =>
        /\ GetLastAppliedVersion(db.ledger) = GetLastAppliedVersion(pre.ledger)
        /\ db.ledger = pre.ledger
        /\ db.applied = pre.applied

\* C3: when a migration body fails, the transaction apply_migrations opened is
\* no longer open once the error has reached the caller.
C3_FailedRunClosesTransaction ==
    (op = "apply" /\ pc = "raised" /\ BodyFailed) => ~db.inTxn

UpToDateRun == op = "apply" /\ Len(migs) <= GetLastAppliedVersion(pre.ledger)

\* C4: a run given no more migrations than the ledger's maximum version only
\* ensures the ledger table and reads the version: it opens no transaction,
\* executes no body, inserts no row, and leaves ledger, effects and
\* transaction state as they were.
C4_UpToDateRunIsNoOp ==
    UpToDateRun =>
        /\ pc \in {"create", "query", "done"}
        /\ IsPrefix(log, <<Entry("create", 0), Entry("query", 0)>>)
        /\ db.ledger = pre.ledger
        /\ db.applied = pre.applied
        /\ db.inTxn = pre.inTxn
        /\ GetLastAppliedVersion(db.ledger) = GetLastAppliedVersion(pre.ledger)

C4_Witness ==
    /\ UpToDateRun
    /\ pc = "done"
    /\ Len(migs) = Len(pre.ledger)
    /\ Len(migs) >= 2
    /\ pre.applied = migs

ExtendingRun ==
    /\ op = "apply"
    /\ ~pre.inTxn
    /\ Len(migs) > GetLastAppliedVersion(pre.ledger)
    /\ pre.applied = Texts(migs, 0, GetLastAppliedVersion(pre.ledger))
    /\ AllValid(migs, GetLastAppliedVersion(pre.ledger), Len(migs))

\* C5: with maximum version v and a list of n > v migrations whose first v
\* entries are the ones already applied (the rest succeed, no transaction open
\* at the call), the run executes exactly the bodies at positions v+1..n, in
\* order, records versions v+1..n, and leaves the maximum version at n.
C5_ExtendingRunAppliesOnlyNew ==
    ExtendingRun =>
        LET v == GetLastAppliedVersion(pre.ledger)
            n == Len(migs)
        IN  /\ pc # "raised"
            /\ IsPrefix(log, ExpectedLog(v, n))
            /\ pc = "done" =>
                /\ log = ExpectedLog(v, n)
                /\ db.applied = pre.applied \o Texts(migs, v, n)
                /\ db.ledger = pre.ledger \o Versions(v, n)
                /\ GetLastAppliedVersion(db.ledger) = n

C5_Witness ==
    /\ ExtendingRun
    /\ pc = "done"
    /\ GetLastAppliedVersion(pre.ledger) >= 1
    /\ Len(migs) >= GetLastAppliedVersion(pre.ledger) + 2

Consistent(c) ==
    /\ c.ledger = Versions(0, Len(c.ledger))
    /\ c.applied = Texts(master, 0, Len(c.ledger))

\* The ledger and the effects between calls, in the connection's view and in
\* the durable database: the ledger is exactly 1..k without gaps or
\* duplicates, and the bodies whose effects the database holds are exactly
\* those at positions 1..k, each once.
LedgerMatchesAppliedPrefix ==
    /\ pc \in Rest => Consistent(db)
    /\ Consistent(committed)

\* C6: with a caller whose lists are each the previous one or an extension of
\* it, the ledger is exactly 1..k without gaps or duplicates, k is the number
\* of bodies applied, and no body has been executed more than once.
C6_NoBodyExecutedTwice ==
    /\ LedgerMatchesAppliedPrefix
    /\ \A i \in DOMAIN executed : executed[i] <= 1

\* A body is executed only while the database, as the connection sees it,
\* does not hold its effect.
ExecutedOnlyWhenAbsent ==
    \A i \in DOMAIN executed :
        executed'[i] > executed[i] => i > Len(db.applied)

\* C6, amended: with such a caller the ledger is exactly 1..k without gaps or
\* duplicates, the database holds the effects of the bodies at positions
\* 1..k, each once, and a body is executed only while its effect is not in
\* the database: for the first time, or again after the run that executed it
\* was rolled back.
C6_LedgerMatchesAppliedPrefix ==
    /\ []LedgerMatchesAppliedPrefix
    /\ [][ExecutedOnlyWhenAbsent]_vars

\* A run has ended in which a body was executed for the second time, the run
\* that executed it first having been rolled back; the database the
\* connection sees holds its effect, once.
C6_Witness ==
    /\ op = "apply"
    /\ pc \in Rest
    /\ \E i \in DOMAIN executed : executed[i] = 2 /\ i <= Len(db.applied)

----------------------------------------------------------------------------
\* Claims about the prepared statement.

\* The outputs after a fetch that read row r into the first k variables.
OutsOfRow(r, k) ==
    [j \in 1..NumCols |-> IF j <= k THEN RowValue(r, j - 1) ELSE InitialOuts[j]]

AfterFetch == clean /\ sop = "fetch" /\ nfetch >= 1

\* C7: after a successful execute whose result set has n rows, the i-th fetch
\* (i <= n) returns true and has read row i, output j from column j - 1, and
\* the (n+1)-th fetch returns false (no call in between having raised).
C7_FetchDeliversEachRowOnce ==
    AfterFetch =>
        /\ nfetch <= execRows => (sres = "row" /\ outs = OutsOfRow(nfetch, lastk))
        /\ nfetch = execRows + 1 => sres = "norow"


\* C8: the first fetch after an execute that produced no row returns false,
\* and whenever fetch returns false the output variables still hold what they
\* held when they were passed.
C8_NoRowLeavesOutputsAlone ==
    /\ (AfterFetch /\ nfetch = 1 /\ execRows = 0) => sres = "norow"
    /\ (sop = "fetch" /\ sres = "norow") => outs = InitialOuts


\* C9: after an execute or fetch that raised, no statement object has its
\* fetch-readiness flag at row-available.
C9_RaisedCallLeavesExhausted ==
    sres = "raised" => \A o \in Objects : ~objs[o].can_fetch

\* C10: a statement object's flag is row-available only if it holds the
\* statement, the engine's last step returned a row, the statement has not
\* been reset since, and fetch has not read that row.
C10_FlagInSyncWithLastStep ==
    \A o \in Objects :
        objs[o].can_fetch => (objs[o].h # 0 /\ eng.state = "row" /\ eng.unread)

ExecuteSucceeded == sop = "execute" /\ sres = "ok"

BindCalls(n) == [i \in 1..n |-> Call("bind", i, "OK")]

\* C11: a successful execute, whatever state it started from, has made the
\* engine calls reset, bind of argument i at position i for each argument in
\* order, and one step; the arguments are bound at their positions; the flag
\* is row-available exactly when that step produced a row, which is row 1;
\* and the next fetch delivers row 1 without stepping the engine.
C11_ExecuteResetsBindsStepsOnce ==
    /\ ExecuteSucceeded =>
        /\ calls = <<Call("reset", 0, "OK")>> \o BindCalls(Len(lastArgs))
                    \o <<Call("step", 0, IF eng.state = "row" THEN "ROW" ELSE "DONE")>>
        /\ \A i \in 1..Len(lastArgs) : eng.bound[i] = lastArgs[i]
        /\ eng.runs = 1
        /\ eng.state \in {"row", "done"}
        /\ eng.nrows = execRows
        /\ (eng.state = "row") = (execRows >= 1)
        /\ eng.state = "row" => eng.cursor = 1
        /\ \A o \in Objects :
            objs[o].can_fetch = (objs[o].h # 0 /\ eng.state = "row")
    /\ (AfterFetch /\ nfetch = 1 /\ execRows >= 1) =>
        (sres = "row" /\ calls = <<>> /\ outs = OutsOfRow(1, lastk))

\* An execute that started with an unread row waiting and rebinds both
\* parameters with different values.
C11_Witness ==
    /\ ExecuteSucceeded
    /\ execFrom = "row waiting"
    /\ Len(lastArgs) = NumParams
    /\ lastArgs[1] # lastArgs[NumParams]
    /\ eng.state = "row"

CallFailed(c) == c.rc \notin {"OK", "ROW", "DONE"}

\* Every status other than success that reset, a bind or step reports is the
\* last engine call of the statement call and makes it raise, and a statement
\* call raises for no other reason; in execute, after a failing reset or bind
\* of parameter i no later parameter is bound and the engine is not stepped.
StatementFailureRaisedAtOnce ==
    /\ \A i \in 1..(Len(calls) - 1) : ~CallFailed(calls[i])
    /\ (sres = "raised") = (calls # <<>> /\ CallFailed(calls[Len(calls)]))
    /\ (sop = "execute" /\ sres = "raised" /\ calls[Len(calls)].op = "reset") =>
        calls = <<Call("reset", 0, "ERROR")>>
    /\ (sop = "execute" /\ sres = "raised" /\ calls[Len(calls)].op = "bind") =>
        LET i == calls[Len(calls)].arg
        IN  /\ Len(calls) = i + 1
            /\ \A j \in 1..Len(calls) : calls[j].op # "step"
            /\ \A j \in 2..Len(calls) : calls[j].arg = j - 1

\* The engine reported a failure in the construction made last: the
\* constructor went on to read the diagnostic message.
ConstructionFailed ==
    /\ lastOp.op \in {"open", "prepare"}
    /\ \E i \in 1..Len(lastOp.calls) : lastOp.calls[i] = "sqlite3_errmsg"

\* A failure that sqlite3_open_v2 or sqlite3_prepare_v3 reports, or that the
\* execute of db::execute meets, is raised to the caller and leaves no
\* object.
ConstructionFailureRaised ==
    ConstructionFailed => (lastOp.rc = "raised" /\ own[lastOp.dst] = NoObject)

\* C15: every status other than success that the engine reports from open,
\* prepare, reset, bind or step is raised to the caller at once, the failing
\* call being the last one made; in execute, after a failing reset or bind
\* of parameter i no later parameter is bound and the engine is not stepped.
C15_EveryFailureRaisedAtOnce ==
    /\ StatementFailureRaisedAtOnce
    /\ ConstructionFailureRaised

\* C19: the SQL of a statement runs once per execute: since the last reset the
\* engine has started at most one run.
C19_OneRunPerExecute == eng.runs <= 1

\* C20: after a successful execute every parameter the call did not supply is
\* NULL.
C20_UnsuppliedParametersAreNull ==
    ExecuteSucceeded =>
        \A j \in (Len(lastArgs) + 1)..NumParams : eng.bound[j] = "NULL"

LiveOwners(h) == {s \in Owners : own[s].life = "live" /\ own[s].h = h}

IsMove == lastOp.op \in {"moveconstruct", "moveassign"}

\* C12: whatever constructions, move constructions, move assignments (into an
\* owner and onto itself included) and destructions of db and statement
\* objects a program has made, no handle has been released twice, a handle
\* that is not released yet is owned by exactly one live object of its kind
\* (so it is released once all objects are destroyed), and a released handle
\* is owned by no live object.
C12_EveryHandleReleasedOnce ==
    \A h \in Handles :
        /\ hnd[h].released <= 1
        /\ (hnd[h].kind # "none" /\ hnd[h].released = 0) =>
                /\ Cardinality(LiveOwners(h)) = 1
                /\ \A s \in LiveOwners(h) : own[s].kind = hnd[h].kind
        /\ (hnd[h].kind = "none" \/ hnd[h].released = 1) => LiveOwners(h) = {}

\* Two owning objects have just been move-assigned one to the other, after
\* another object was destroyed.
C12_Witness ==
    /\ lastOp.op = "moveassign"
    /\ lastOp.src # lastOp.dst
    /\ lastOp.srcWas # 0
    /\ lastOp.dstWas # 0
    /\ \E s \in Owners : own[s].life = "dead"

\* C13: after a move of a connection to another object, by move construction
\* or by move assignment, the moved-from object holds no handle (and so its
\* destruction releases none).
C13_MovedFromHoldsNothing ==
    (IsMove /\ lastOp.kind = "db" /\ lastOp.src # lastOp.dst) =>
        own[lastOp.src].h = 0



\* C14: the handle a failed open left behind has been released once, by a
\* sqlite3_close_v2 call made before anything else, and no object, live or
\* destroyed, has ever owned it.
C14_FailedOpenReleasesHandle ==
    /\ \A h \in Handles :
        hnd[h].failed =>
            /\ hnd[h].released = 1
            /\ \A s \in Owners : own[s].h # h
    /\ (lastOp.op = "open" /\ lastOp.rc # "ok") =>
        /\ own[lastOp.dst] = NoObject
        /\ lastOp.calls[2] = "sqlite3_close_v2"

\* An open has failed leaving a handle, and raised.
C14_Witness ==
    /\ lastOp.op = "open"
    /\ lastOp.rc = "raised"
    /\ lastOp.dstWas # 0
    /\ hnd[lastOp.dstWas].failed

\* C16: an absent optional<T> has bound NULL; and a NULL column read into an
\* optional<T> destination has left it absent, whether it was absent or held
\* a value before.
C16_AbsentIsNull ==
    /\ (astep # "start" /\ aopt /\ ~aarg.present) => aslot = NullValue
    /\ (astep = "read" /\ aopt /\ aslot.type = "NULL") => adest = None

\* A NULL column has been read into an optional that held a value.
C16_Witness ==
    /\ astep = "read"
    /\ aopt
    /\ ~aarg.present
    /\ aslot.type = "NULL"
    /\ adestWas.present
    /\ atype.kind = "enum"

\* C17: a bool, integral or enumeration value, bound and then read from the
\* same slot into a destination of its type, is read back unchanged; types of
\* at most 4 bytes go through the engine's int and 8-byte types through its
\* 64-bit integer, which holds the bound value's bits.
C17_IntegralRoundTrip ==
    (astep # "start" /\ ~aopt) =>
        /\ aslot.type = "INTEGER"
        /\ aslot.v = IF atype.bits = Int64Bits
                     THEN StaticCast(Int64Type, aarg.v)
                     ELSE StaticCast(IntType, aarg.v)
        /\ astep = "read" => adest = aarg

\* An 8-byte unsigned value above the signed maximum has been bound and read.
C17_Witness ==
    /\ astep = "read"
    /\ ~aopt
    /\ atype = CType("int", Int64Bits, FALSE)
    /\ aarg.v >= Pow2(Int64Bits - 1)
    /\ aslot.v < 0

\* C18: after the read of a column that is not NULL into an optional<T>
\* destination, the destination is present and holds the value that was
\* bound, and the read has come to its end.
C18_NonNullReadIsPresent ==
    (astep \in {"read", "aborted"} /\ aopt /\ aslot.type # "NULL") =>
        (astep = "read" /\ adest = aarg)

ReleaseCalls == {"sqlite3_close_v2", "sqlite3_finalize"}

\* The handle the engine calls of the last operation were made on.
HandleOfLastOp == IF lastOp.op = "destroy" THEN lastOp.srcWas ELSE lastOp.dstWas

\* C21: in the engine calls of a construction, move or destruction, the call
\* that releases a handle is the last one made on it: nothing, the read of
\* the diagnostic message included, follows it on that handle.
C21_NoCallAfterRelease ==
    HandleOfLastOp # 0 =>
        \A i \in 1..Len(lastOp.calls) :
            lastOp.calls[i] \in ReleaseCalls => i = Len(lastOp.calls)

RECURSIVE AllStatements(_)
AllStatements(texts) ==
    IF texts = <<>> THEN <<>>
    ELSE Statements(Head(texts)) \o AllStatements(Tail(texts))

\* C22: the SQL statements that have run on the database are all the
\* statements of the migration bodies executed, in order: when the ledger row
\* of a body is inserted, every statement of the body has run.
C22_EveryStatementOfBodyRuns == db.effects = AllStatements(db.applied)

Min(a, b) == IF a < b THEN a ELSE b

IsText(val) == \A i \in 1..Len(val) : val[i] \in TextChars

Terminated(buf) == \E i \in 1..Len(buf) : buf[i] = NUL

\* C23: after the read of a text of length L into a char[BufSize], the buffer
\* holds a terminator, and the string in it is the first min(L, BufSize - 1)
\* characters of the text.
C23_BufferHoldsTruncatedString ==
    (tstep = "read" /\ IsText(tslot)) =>
        /\ Terminated(tbuf)
        /\ SubSeq(tbuf, 1, StrLen(tbuf)) = SubSeq(tslot, 1, Min(Len(tslot), BufSize - 1))

====
